---- MODULE Spec2Model ----
(***************************************************************************)
(* Model of the portfolio reconciliation core of the wallet test suite:    *)
(*   - PortfolioValidator (test/api/helpers/PortfolioValidator.js)         *)
(*   - SolflareApiClient  (test/api/clients/SolflareApiClient.js)          *)
(* and of what runs around it: the logger (utils/logger), the test cases   *)
(* of the API suites, the afterTest hook with the screenshot helper, and   *)
(* the onboarding flow of the page object.                                 *)
(* Money is counted in thousandths of a dollar, so the default tolerance   *)
(* 0.01 is 10, a difference of 0.005 is 5 and a unit price of 2.5 is 2500. *)
(* The arithmetic is exact: binary floating-point rounding is not modelled.*)
(***************************************************************************)
EXTENDS Integers, Sequences, FiniteSets, TLC

(***************************************************************************)
(* JavaScript values the validator computes with.  A value is a record     *)
(* [t, n]: a number, NaN, undefined or null.                               *)
(***************************************************************************)
Num(k) == [t |-> "num", n |-> k]

NaN == [t |-> "nan", n |-> 0]

Undef == [t |-> "undef", n |-> 0]

Null == [t |-> "null", n |-> 0]

IsNum(v) == v.t = "num"

\* ToNumber as applied by the arithmetic operators: null is 0, undefined is NaN.
ToNumber(v) == IF v.t = "null" THEN Num(0) ELSE IF v.t = "undef" THEN NaN ELSE v

\* a + b on non-string operands
JsAdd(a, b) ==
    LET x == ToNumber(a)
        y == ToNumber(b)
    IN  IF IsNum(x) /\ IsNum(y) THEN Num(x.n + y.n) ELSE NaN

\* a - b
JsSub(a, b) ==
    LET x == ToNumber(a)
        y == ToNumber(b)
    IN  IF IsNum(x) /\ IsNum(y) THEN Num(x.n - y.n) ELSE NaN

\* a * b
JsMul(a, b) ==
    LET x == ToNumber(a)
        y == ToNumber(b)
    IN  IF IsNum(x) /\ IsNum(y) THEN Num(x.n * y.n) ELSE NaN

\* Math.abs(v)
JsAbs(v) ==
    LET x == ToNumber(v)
    IN  IF IsNum(x) THEN Num(IF x.n < 0 THEN 0 - x.n ELSE x.n) ELSE NaN

\* v || 0 : undefined, null, NaN and 0 are falsy
OrZero(v) == IF IsNum(v) /\ v.n # 0 THEN v ELSE Num(0)

\* obj?.usdPrice : undefined when obj is undefined or null
OptUsdPrice(p) == IF p.t = "obj" THEN p.usdPrice ELSE Undef

\* v.toFixed(d) exists on numbers (NaN included), not on undefined or null
HasToFixed(v) == v.t \in {"num", "nan"}

\* a comparison that also accepts equality (mutant of LessThan)
LessThanOrEqual(a, b) == IsNum(a) /\ IsNum(b) /\ a.n <= b.n

\* expect(a).to.be.lessThan(b) passes iff both are numbers and a < b
LessThan(a, b) == IsNum(a) /\ IsNum(b) /\ a.n < b.n

(***************************************************************************)
(* PortfolioValidator                                                      *)
(***************************************************************************)
DefaultTolerance == 10

\* constructor(tolerance = 0.01): the default applies to an undefined argument
NewValidator(arg) == IF arg.t = "undef" THEN Num(DefaultTolerance) ELSE arg

\* the selector without the "|| 0" on the price (mutant of TokenSelector)
TokenSelectorNoPriceDefault(t) == JsMul(OrZero(t.totalUiAmount), OptUsdPrice(t.price))

\* t => (t.totalUiAmount || 0) * (t.price?.usdPrice || 0)
TokenSelector(t) == JsMul(OrZero(t.totalUiAmount), OrZero(OptUsdPrice(t.price)))

\* p => p.value.total (net-worth scenario, sum of the fetched portfolios)
TotalSelector(p) == p.total

\* w => w.value || 0 (net-worth scenario, sum of the balances data entries)
ValueOrZeroSelector(w) == OrZero(w.value)

\* getValue(item), for the callbacks the repository passes to sum
GetValue(getValue, item) ==
    CASE getValue = "token" -> TokenSelector(item)
      [] getValue = "total" -> TotalSelector(item)
      [] getValue = "valueOrZero" -> ValueOrZeroSelector(item)

\* static sum(items, getValue): items.reduce((total, item) => total + getValue(item), 0)
Sum(items, getValue) ==
    LET acc[i \in 0..Len(items)] ==
            IF i = 0 THEN Num(0) ELSE JsAdd(acc[i - 1], GetValue(getValue, items[i]))
    IN  acc[Len(items)]

\* static tokenValue(tokens)
TokenValue(tokens) == Sum(tokens, "token")

\* assertMatch(actual, expected, label): the outcome of the call
AssertMatch(a, e, tol) ==
    LET diff == JsAbs(JsSub(a, e))
    IN  IF ~HasToFixed(a) \/ ~HasToFixed(e) THEN "TypeError"
        ELSE IF LessThan(diff, tol) THEN "ok"
        ELSE "AssertionError"

\* val.toFixed(2) of a number: cents, rounded half up (the rounding of the
\* binary representation is not modelled)
ToFixed2(n) == IF n >= 0 THEN (n + 5) \div 10 ELSE 0 - ((5 - n) \div 10)

\* typeof val === 'number' ? `$${val.toFixed(2)}` : val
FormatEntry(val) ==
    CASE val.t = "num" -> [t |-> "usd", n |-> ToFixed2(val.n)]
      [] val.t = "nan" -> [t |-> "usdNaN", n |-> 0]
      [] OTHER -> val

\* an assertMatch that tightens the tolerance after every check (mutant of
\* AssertMatchTolerance)
ToleranceHalved(tol) == IF IsNum(tol) THEN Num(tol.n \div 2) ELSE tol

\* assertMatch(actual, expected, label): this.tolerance after the call
AssertMatchTolerance(tol) == tol

\* logSummary(title, data): the record handed to logger.summary
LogSummary(data) == [i \in 1..Len(data) |-> FormatEntry(data[i])]

\* function calculateTokenTotal(tokens): the loop of the inline suite
CalculateTokenTotal(tokens) ==
    LET total[i \in 0..Len(tokens)] ==
            IF i = 0 THEN Num(0)
            ELSE LET amount == OrZero(tokens[i].totalUiAmount)
                     price == OrZero(OptUsdPrice(tokens[i].price))
                 IN  JsAdd(total[i - 1], JsMul(amount, price))
    IN  total[Len(tokens)]

\* function calculateWalletSum(data): the loop runs over data || [], data
\* being an array [t |-> "arr", items |-> ...] or undefined
CalculateWalletSum(data) ==
    LET wallets == IF data.t = "arr" THEN data.items ELSE <<>>
        sum[i \in 0..Len(wallets)] ==
            IF i = 0 THEN Num(0) ELSE JsAdd(sum[i - 1], OrZero(wallets[i].value))
    IN  sum[Len(wallets)]

(***************************************************************************)
(* Inputs                                                                  *)
(***************************************************************************)
MaxLen == 2

MaxSteps == 5

BSeq(S, n) == UNION {[1..k -> S] : k \in 0..n}

\* amounts of money from 0 to MaxSteps * 0.005, and the non-numbers
Money == {Num(5 * k) : k \in 0..MaxSteps} \cup {NaN, Undef, Null}

\* tolerance arguments of the constructor: none, 0.01, 0.02, 0 and -0.01
ToleranceArgs == {Undef, Num(10), Num(20), Num(0), Num(0 - 10)}

\* the values of a summary's entries: a number, NaN and a missing field
SummaryValues == {Num(1234), NaN, Undef}

Quantities == {Undef, Null, Num(0), Num(4), Num(10)}

PriceObjects ==
    {[t |-> "undef", usdPrice |-> Undef], [t |-> "null", usdPrice |-> Undef]}
        \cup {[t |-> "obj", usdPrice |-> u] : u \in {Undef, Null, Num(0), Num(2500)}}

Tokens == [totalUiAmount : Quantities, price : PriceObjects]

FieldValues == {Undef, Null, Num(0), Num(5), Num(50)}

Portfolios == [total : FieldValues]

DataEntries == [value : FieldValues]

(***************************************************************************)
(* SolflareApiClient: requests, responses and the remote endpoint          *)
(***************************************************************************)
DefaultBaseUrl == "https://wallet-api.solflare.com"

BaseUrls == {DefaultBaseUrl, "http://localhost"}

\* values crypto.randomUUID() may return
Uuids == {"uuid-a", "uuid-b"}

\* an argument the caller did not pass
Omitted == "<omitted>"

MaxAddrs == 2

MaxCalls == 2

ValidAddresses == {"96Y3j66A", "7eXxD3vQ"}

Addresses == ValidAddresses \cup {"invalid"}

SupportedNetworks == {"mainnet", "devnet", "testnet"}

NetworkArgs == SupportedNetworks \cup {Omitted, "invalid", "MAINNET"}

SupportedCurrencies == {"usd"}

CurrencyArgs == {Omitted, "usd", "invalid_currency"}

\* the network argument the suites pass to getMultiplePortfolios
MultipleNetworkArgs == {Omitted, "mainnet"}

PortfolioPath == "/v3/portfolio/tokens/"

BalancesPath == "/v2/portfolio/balances"

\* constructor(baseUrl = 'https://wallet-api.solflare.com')
NewClientBaseUrl(arg) == IF arg = Omitted THEN DefaultBaseUrl ELSE arg

\* headers that carry a newly generated token instead of the client's
\* (mutant of Headers)
HeadersWithFreshToken(authToken) ==
    [Authorization |-> "Bearer " \o (CHOOSE u \in Uuids : u # authToken)]

\* get headers(): { 'Authorization': `Bearer ${this.authToken}` }
Headers(authToken) == [Authorization |-> "Bearer " \o authToken]

\* the request axios.get sends for getPortfolio(address)
GetPortfolioRequest(baseUrl, authToken, address) ==
    [method |-> "GET",
     url |-> baseUrl \o PortfolioPath \o address,
     network |-> "mainnet",
     pubkeys |-> <<>>,
     currency |-> "-",
     general |-> FALSE,
     headers |-> Headers(authToken)]

\* the request axios.post sends for getBalances(addresses)
GetBalancesRequest(baseUrl, authToken, addresses) ==
    [method |-> "POST",
     url |-> baseUrl \o BalancesPath,
     network |-> "mainnet",
     pubkeys |-> [i \in 1..Len(addresses) |-> "1" \o addresses[i]],
     currency |-> "usd",
     general |-> TRUE,
     headers |-> Headers(authToken)]

\* the state of one outbound request: in flight, or settled by axios
NoData == [kind |-> "none", url |-> "", network |-> "", pubkeys |-> <<>>, total |-> Undef]

Inflight == [state |-> "inflight", status |-> 0, data |-> NoData]

\* a 2xx response: the promise fulfils with the response, whose data is the body
Fulfilled(body) == [state |-> "fulfilled", status |-> 200, data |-> body]

\* a non-2xx response: axios rejects with an error that carries the status
Rejected(code) == [state |-> "rejected", status |-> code, data |-> NoData]

\* no response at all (timeout, DNS, connection refused): axios rejects
TransportFailed == [state |-> "rejected", status |-> 0, data |-> NoData]

NoError == [name |-> "none", status |-> 0]

\* the error a rejected request raises in the awaiting caller
ErrorOf(r) ==
    IF r.status = 0 THEN [name |-> "TransportError", status |-> 0]
    ELSE [name |-> "RequestRejected", status |-> r.status]

\* The remote endpoint as the negative tests expect it to behave: it serves a
\* request for a well-formed address on a supported network (and, for balances,
\* a non-empty list of prefixed addresses in a supported currency), and rejects
\* every other request with a 4xx status.
ServerAccepts(req) ==
    IF req.method = "GET"
    THEN /\ \E base \in BaseUrls, a \in ValidAddresses : req.url = base \o PortfolioPath \o a
         /\ req.network \in SupportedNetworks
    ELSE /\ \E base \in BaseUrls : req.url = base \o BalancesPath
         /\ req.pubkeys # <<>>
         /\ \A i \in 1..Len(req.pubkeys) : \E a \in ValidAddresses : req.pubkeys[i] = "1" \o a
         /\ req.currency \in SupportedCurrencies
         /\ req.network \in SupportedNetworks

\* monetary totals the endpoint may report
ServerTotals == {Num(25000), Num(25010)}

\* net worths the endpoint may report
ServerNetWorths == {Num(50000), Num(50010)}

\* the bodies the endpoint may answer a served request with
ServerBodies(req) ==
    {[kind |-> IF req.method = "GET" THEN "portfolio" ELSE "balances",
      url |-> req.url, network |-> req.network, pubkeys |-> req.pubkeys, total |-> t]
        : t \in IF req.method = "GET" THEN ServerTotals ELSE ServerNetWorths}

\* every way one outbound request can end
Settlements(req) ==
    (IF ServerAccepts(req) THEN {Fulfilled(b) : b \in ServerBodies(req)} ELSE {Rejected(400)})
        \cup {TransportFailed}

\* a call that falls back to a zero-valued body when its request fails
\* (mutant of GetPortfolioOutcome)
OutcomeWithZeroFallback(r) ==
    IF r.state = "inflight" THEN [status |-> "pending", result |-> <<>>, error |-> NoError]
    ELSE IF r.state = "fulfilled" THEN [status |-> "returned", result |-> <<r.data>>, error |-> NoError]
    ELSE [status |-> "returned", result |-> <<[NoData EXCEPT !.total = Num(0)]>>, error |-> NoError]

\* a call that swallows the rejection and returns the (empty) data
\* (mutant of GetBalancesOutcome)
OutcomeSwallowingErrors(r) ==
    IF r.state = "inflight" THEN [status |-> "pending", result |-> <<>>, error |-> NoError]
    ELSE [status |-> "returned", result |-> <<r.data>>, error |-> NoError]

\* const { data } = await axios.get(...); return data;
GetPortfolioOutcome(r) ==
    IF r.state = "inflight" THEN [status |-> "pending", result |-> <<>>, error |-> NoError]
    ELSE IF r.state = "fulfilled" THEN [status |-> "returned", result |-> <<r.data>>, error |-> NoError]
    ELSE [status |-> "threw", result |-> <<>>, error |-> ErrorOf(r)]

\* const { data } = await axios.post(...); return data;
GetBalancesOutcome(r) ==
    IF r.state = "inflight" THEN [status |-> "pending", result |-> <<>>, error |-> NoError]
    ELSE IF r.state = "fulfilled" THEN [status |-> "returned", result |-> <<r.data>>, error |-> NoError]
    ELSE [status |-> "threw", result |-> <<>>, error |-> ErrorOf(r)]

\* the values collected in the order the responses arrived
\* (mutant of PromiseAllValues)
ValuesInArrivalOrder(rs, order) == [k \in 1..Len(order) |-> rs[order[k]].data]

\* Promise.all: the fulfilment values, in the order of the input promises
PromiseAllValues(rs, order) == [i \in 1..Len(rs) |-> rs[i].data]

\* the first request, in order of arrival, that was rejected
FirstRejected(rs, order) ==
    order[CHOOSE k \in 1..Len(order) :
            /\ rs[order[k]].state = "rejected"
            /\ \A j \in 1..(k - 1) : rs[order[j]].state # "rejected"]

\* waits for every request and returns the values of those that succeeded
\* (mutant of GetMultiplePortfoliosOutcome)
OutcomeDroppingFailures(rs, order) ==
    IF \E i \in 1..Len(rs) : rs[i].state = "inflight"
    THEN [status |-> "pending", result |-> <<>>, error |-> NoError]
    ELSE [status |-> "returned",
          result |-> ValuesInArrivalOrder(rs, SelectSeq(order, LAMBDA i : rs[i].state = "fulfilled")),
          error |-> NoError]

\* return await Promise.all(addresses.map(addr => this.getPortfolio(addr)));
\* rejects with the first rejection, fulfils once every request has fulfilled
GetMultiplePortfoliosOutcome(rs, order) ==
    IF \E i \in 1..Len(rs) : rs[i].state = "rejected"
    THEN [status |-> "threw", result |-> <<>>, error |-> ErrorOf(rs[FirstRejected(rs, order)])]
    ELSE IF \A i \in 1..Len(rs) : rs[i].state = "fulfilled"
    THEN [status |-> "returned", result |-> PromiseAllValues(rs, order), error |-> NoError]
    ELSE [status |-> "pending", result |-> <<>>, error |-> NoError]

\* the outcome of the current call, given its requests' states
CallOutcome(operation, rs, order) ==
    CASE operation = "getPortfolio" -> GetPortfolioOutcome(rs[1])
      [] operation = "getBalances" -> GetBalancesOutcome(rs[1])
      [] operation = "getMultiplePortfolios" -> GetMultiplePortfoliosOutcome(rs, order)

(***************************************************************************)
(* Logger                                                                  *)
(***************************************************************************)
MaxLogCalls == 3

\* the Logger methods, by what they do: testEnd(name, false) and error()
\* ensure the error transport and log at level error; every other method
\* (step, section, verify, summary, apiRequest, apiResponse, action, ... log
\* like info, warn or debug) only logs
ErrorMessages == {"Test failed", "Failure details", "Failed to capture screenshot"}

\* logger.error(message, error) with one of the messages the hooks log
ErrorCall(message) == "error: " \o message

ErrorMethods == {"error", "testEnd(false)"} \cup {ErrorCall(m) : m \in ErrorMessages}

OtherMethods == {"testStart", "testEnd(true)", "info", "warn", "debug"}

\* the module at load: two transports, no error transport
NewLogger ==
    [errorTransport |-> "null", hasErrors |-> FALSE,
     transports |-> <<"Console", "File">>, calls |-> <<>>]

\* adds an error transport at every call (mutant of EnsureErrorTransport)
EnsureWithoutGuard(lg) ==
    [lg EXCEPT !.hasErrors = TRUE, !.errorTransport = "ErrorFile",
               !.transports = Append(@, "ErrorFile")]

\* function ensureErrorTransport()
EnsureErrorTransport(lg) ==
    IF lg.errorTransport = "null" /\ ~lg.hasErrors
    THEN [lg EXCEPT !.hasErrors = TRUE, !.errorTransport = "ErrorFile",
                    !.transports = Append(@, "ErrorFile")]
    ELSE lg

\* one call of a Logger method
LoggerCall(lg, method) ==
    LET l == IF method \in ErrorMethods THEN EnsureErrorTransport(lg) ELSE lg
    IN  [l EXCEPT !.calls = Append(@, method)]

\* the Logger calls of a piece of straight-line code, in order
LoggerCalls(lg, methods) ==
    LET after[i \in 0..Len(methods)] ==
            IF i = 0 THEN lg ELSE LoggerCall(after[i - 1], methods[i])
    IN  after[Len(methods)]

(***************************************************************************)
(* Test cases of the API suites                                            *)
(***************************************************************************)
ADDRESSES == <<"96Y3j66A", "7eXxD3vQ">>

\* fields of a portfolio body beside value.total, and the data of a balances
\* body, as the endpoint may report them
ScenarioTokens ==
    {<<>>, <<[totalUiAmount |-> Num(10), price |-> [t |-> "obj", usdPrice |-> Num(2500)]]>>}

TokensValueTotals == {Num(25000), Num(20000)}

StocksValueTotals == {Num(0), Num(5010), Undef}

ScenarioData ==
    {<<>>, <<[value |-> Num(25000)], [value |-> Num(25000)]>>,
     <<[value |-> Num(25000)], [value |-> Num(25010)]>>}

\* the calls of the negative tests: a malformed address, an invalid network
\* and an empty address list
NegativeCalls ==
    {[operation |-> "getPortfolio", addresses |-> <<"invalid">>,
      currency |-> Omitted, network |-> Omitted],
     [operation |-> "getPortfolio", addresses |-> <<ADDRESSES[1]>>,
      currency |-> Omitted, network |-> "invalid"],
     [operation |-> "getBalances", addresses |-> <<>>,
      currency |-> Omitted, network |-> Omitted]}

NoTest == [kind |-> "none", call |-> "none"]

NoVerdict == [result |-> "none", caught |-> NoError, thrown |-> NoError]

\* validator.assertMatch(a, e, label), as one evaluated check
Check(label, a, e, tol) ==
    [label |-> label, actual |-> a, expected |-> e, outcome |-> AssertMatch(a, e, tol)]

\* the checks of a try block that are evaluated: a check that throws leaves
\* the block, so the checks after it are not reached
EvaluatedChecks(cs) ==
    LET bad == {i \in 1..Len(cs) : cs[i].outcome # "ok"}
    IN  IF bad = {} THEN cs
        ELSE SubSeq(cs, 1, CHOOSE i \in bad : \A j \in bad : i <= j)

\* the error that ended the evaluated checks, if any
ErrorOfChecks(ev) ==
    IF ev # <<>> /\ ev[Len(ev)].outcome # "ok"
    THEN [name |-> ev[Len(ev)].outcome, status |-> 0]
    ELSE NoError

\* the Logger calls of the evaluated checks: logger.section before each, and
\* in assertMatch two logger.info unless the formatting threw, then
\* logger.verify if the comparison passed
ChecksLog(ev) ==
    LET upTo[i \in 0..Len(ev)] ==
            IF i = 0 THEN <<>>
            ELSE upTo[i - 1] \o <<"section">> \o
                 (CASE ev[i].outcome = "ok" -> <<"info", "info", "verify">>
                    [] ev[i].outcome = "AssertionError" -> <<"info", "info">>
                    [] OTHER -> <<>>)
    IN  upTo[Len(ev)]

\* a test that reports the failure and then ends as passed
\* (mutant of EndOfTry)
EndSwallowingError(lg, err) ==
    IF err = NoError
    THEN [logger |-> LoggerCall(lg, "testEnd(true)"),
          verdict |-> [result |-> "passed", caught |-> NoError, thrown |-> NoError]]
    ELSE [logger |-> LoggerCalls(lg, <<"error", "testEnd(false)", "testEnd(true)">>),
          verdict |-> [result |-> "passed", caught |-> err, thrown |-> NoError]]

\* the end of the try block of a positive test: logger.testEnd(testName, true)
\* when nothing was thrown, else the catch block: logger.error,
\* logger.testEnd(testName, false), throw error
EndOfTry(lg, err) ==
    IF err = NoError
    THEN [logger |-> LoggerCall(lg, "testEnd(true)"),
          verdict |-> [result |-> "passed", caught |-> NoError, thrown |-> NoError]]
    ELSE [logger |-> LoggerCalls(lg, <<"error", "testEnd(false)">>),
          verdict |-> [result |-> "failed", caught |-> err, thrown |-> err]]

\* the end of a negative test: expect.fail('Should have thrown an error') is
\* inside the try block, so the catch block receives either the error of the
\* call or the assertion error of expect.fail; it logs, passes
\* expect(error).to.exist and calls logger.testEnd(testName, true)
EndOfNegativeTry(lg, callStatus, callError) ==
    [logger |-> LoggerCalls(lg, <<"info", "info", "verify", "testEnd(true)">>),
     verdict |-> [result |-> "passed",
                  caught |-> IF callStatus = "returned"
                             THEN [name |-> "AssertionError", status |-> 0]
                             ELSE callError,
                  thrown |-> NoError]]

(***************************************************************************)
(* ScreenshotHelper and the afterTest hook                                 *)
(***************************************************************************)
MaxReports == 2

\* strings as sequences of characters; [a-z0-9] with the i flag
AlphaNumeric ==
    {"a", "b", "c", "d", "e", "f", "g", "h", "i", "j", "k", "l", "m", "n", "o", "p", "q",
     "r", "s", "t", "u", "v", "w", "x", "y", "z", "A", "B", "C", "D", "E", "F", "G", "H",
     "I", "J", "K", "L", "M", "N", "O", "P", "Q", "R", "S", "T", "U", "V", "W", "X", "Y",
     "Z", "0", "1", "2", "3", "4", "5", "6", "7", "8", "9"}

\* the titles of the tests reported to the hook
TestTitles ==
    {<<"T", "1">>, <<"a", " ", "é", "b">>, <<"a", "_", "b">>,
     [i \in 1..150 |-> IF i % 4 \in {0, 3} THEN " " ELSE "x"]}

\* what getTimestamp may return: the clock at a resolution of one second
Timestamps == {"2025-01-01_10-00-00", "2025-01-01_10-00-01"}

\* path.join(process.cwd(), 'screenshots')
ScreenshotsDir == "/cwd/screenshots"

\* the characters of a string put together
Join(chars) ==
    LET RECURSIVE part(_, _)
        part(lo, hi) ==
            IF lo > hi THEN ""
            ELSE IF lo = hi THEN chars[lo]
            ELSE part(lo, (lo + hi) \div 2) \o part((lo + hi) \div 2 + 1, hi)
    IN  part(1, Len(chars))

\* sanitizeFilename without .replace(/_+/g, '_') (mutant of SanitizeFilename)
SanitizeKeepingRuns(name) ==
    LET replaced == [i \in 1..Len(name) |->
                        IF name[i] \in AlphaNumeric THEN name[i] ELSE "_"]
    IN  SubSeq(replaced, 1, IF Len(replaced) < 100 THEN Len(replaced) ELSE 100)

\* sanitizeFilename(name)
SanitizeFilename(name) ==
    LET replaced == [i \in 1..Len(name) |->
                        IF name[i] \in AlphaNumeric THEN name[i] ELSE "_"]
        \* of a run of underscores the first is kept
        Kept(at) == ~(at.char = "_" /\ at.before = "_")
        kept == SelectSeq([i \in 1..Len(replaced) |->
                              [char |-> replaced[i],
                               before |-> IF i = 1 THEN "" ELSE replaced[i - 1]]], Kept)
        whole == [i \in 1..Len(kept) |-> kept[i].char]
    IN  SubSeq(whole, 1, IF Len(whole) < 100 THEN Len(whole) ELSE 100)

\* captureFailure(testName): filepath
FailurePath(testName, timestamp) ==
    ScreenshotsDir \o "/" \o Join(SanitizeFilename(testName)) \o "_FAILED_" \o timestamp \o ".png"

NoReport == [title |-> <<>>, passed |-> TRUE, error |-> FALSE]

\* logger.info(`Cleared ${files.length} screenshots`)
ClearedCall == "info: Cleared screenshots"

\* a file of the screenshots directory is its path and, for endsWith, the last
\* four characters of its name; these are files the helper did not write
OtherFiles ==
    {[path |-> ScreenshotsDir \o "/notes.txt", last4 |-> ".txt"],
     [path |-> ScreenshotsDir \o "/shot.PNG", last4 |-> ".PNG"]}

\* getScreenshots without the filter (mutant of GetScreenshots)
GetScreenshotsUnfiltered(dir) == dir

\* getScreenshots(): readdirSync(...).filter(file => file.endsWith('.png'))
GetScreenshots(dir) == {file \in dir : file.last4 = ".png"}

(***************************************************************************)
(* OnboardingPage                                                          *)
(***************************************************************************)
\* the length of the recovery phrase the page shows (24 on the real page)
MaxWords == 2

Words == {"abandon", "zoo", "wave"}

Passwords == {"Test1234!", ""}

\* the steps of completeOnboarding, in the order of its statements
OnboardingSteps ==
    <<"clickNeedNewWallet", "extractRecoveryPhrase", "clickSavedPhrase",
      "enterRecoveryPhrase", "clickContinue", "enterPassword", "clickContinue",
      "clickAgree">>

\* the word at loop index i typed into the input of the same number
\* (mutant of InputNumber)
InputNumberZeroBased(i) == i

\* the input a word is typed into: `input-recovery-phrase-${i + 1}`
InputNumber(i) == i + 1

\* the confirmation inputs after the first n words of phrase were typed
Typed(phrase, n) ==
    [k \in {InputNumber(i) : i \in 0..(n - 1)} |->
        phrase[(CHOOSE i \in 0..(n - 1) : InputNumber(i) = k) + 1]]

\* the page after a step has done all it does
PageAfter(step, pg, phrase, pw) ==
    CASE step = "enterRecoveryPhrase" -> [pg EXCEPT !.typed = Typed(phrase, Len(phrase))]
      [] step = "enterPassword" -> [pg EXCEPT !.newPassword = pw, !.repeatPassword = pw]
      [] OTHER -> [pg EXCEPT !.clicks = Append(@, step)]

(***************************************************************************)
(* WalletManagementPage                                                    *)
(***************************************************************************)
\* how many toggle switches the page may show
MaxToggles == 5

\* how many names verifyWalletsInList may be given
MaxNames == 2

\* testConfig: mainWalletName, newWalletName, toggleGeneratedWallets
WalletNames == {"Main Wallet", "Talimi Banana", "Wallet 2"}

\* what the recovery-phrase section may list
WalletTitles ==
    {<<>>, <<"Main Wallet">>, <<"Wallet 2", "Main Wallet">>,
     <<"Main Wallet", "Talimi Banana", "Wallet 2", "Wallet 3">>}

\* $$('button[role="switch"]'): no switch, or a first switch in any state
\* followed by switches that can be clicked
ToggleSwitches ==
    {<<>>} \cup
    {<<first>> \o [i \in 1..n |-> [enabled |-> TRUE, dataState |-> "unchecked"]] :
        first \in [enabled : BOOLEAN, dataState : {"checked", "unchecked", "null"}],
        n \in 0..(MaxToggles - 1)}

\* the steps of manageRecoveryPhraseToggles, in the order of its statements
ManageSteps ==
    <<"clickAddWallet", "selectManageRecoveryPhrase", "verifyFirstToggleState",
      "selectToggles", "clickSave">>

\* verifyFirstToggleState without the check of data-state (mutant of
\* VerifyFirstToggleState)
VerifyFirstToggleDisabledOnly(toggles) ==
    IF Len(toggles) = 0 THEN "No toggle switches found"
    ELSE IF toggles[1].enabled THEN "First toggle should be disabled but it is enabled"
    ELSE "true"

\* verifyFirstToggleState(): true, or the message of the error it throws
VerifyFirstToggleState(toggles) ==
    IF Len(toggles) = 0 THEN "No toggle switches found"
    ELSE IF toggles[1].enabled THEN "First toggle should be disabled but it is enabled"
    ELSE IF toggles[1].dataState # "checked"
    THEN "First toggle should be ON (checked) but state is: " \o toggles[1].dataState
    ELSE "true"

\* a WebdriverIO command rejects: an element is not displayed or clickable
\* within its timeout
WebdriverError == "WebdriverError"

\* verifyWalletsInList looking at the first expected name only (mutant of
\* VerifyWalletsOutcome)
VerifyFirstWalletOnly(pg, walletNames) ==
    IF ~pg.headerDisplayed THEN WebdriverError
    ELSE IF walletNames = <<>> \/ \E j \in 1..Len(pg.titles) : pg.titles[j] = walletNames[1]
    THEN "true"
    ELSE "Wallet \"" \o walletNames[1] \o "\" not found"

\* verifyWalletsInList(walletNames): true, or the message of the error thrown
VerifyWalletsOutcome(pg, walletNames) ==
    LET absent == {i \in 1..Len(walletNames) :
                      ~\E j \in 1..Len(pg.titles) : pg.titles[j] = walletNames[i]}
    IN  IF ~pg.headerDisplayed THEN WebdriverError
        ELSE IF absent = {} THEN "true"
        ELSE "Wallet \"" \o walletNames[CHOOSE i \in absent : \A k \in absent : i <= k]
                 \o "\" not found"

\* the Logger calls of verifyWalletsInList once the titles have been read
VerifyWalletsLog(pg, walletNames) ==
    LET absent == {i \in 1..Len(walletNames) :
                      ~\E j \in 1..Len(pg.titles) : pg.titles[j] = walletNames[i]}
    IN  IF absent = {} THEN <<"info">> \o [i \in 1..Len(walletNames) |-> "verify"] \o <<"verify">>
        ELSE <<"info">>
             \o [i \in 1..((CHOOSE i \in absent : \A k \in absent : i <= k) - 1) |-> "verify"]
             \o <<"error">>

NoWalletCall == [operation |-> "none", walletNames |-> <<>>]

(***************************************************************************)
(* State                                                                   *)
(***************************************************************************)
VARIABLES
    toleranceArg, \* the argument the validator was constructed with
    tolerance,  \* PortfolioValidator.tolerance
    op,         \* the validator operation called last
    actual,     \* assertMatch: actual
    expected,   \* assertMatch: expected
    items,      \* sum / tokenValue: the sequence summed
    selector,   \* sum: the getValue callback
    outcome,    \* "ok" or the error the call threw
    value,      \* the number the call returned
    summary,    \* the record logSummary emitted last
    baseUrl,    \* SolflareApiClient.baseUrl
    authToken,  \* SolflareApiClient.authToken
    call,       \* the client operation called last, with the caller's arguments
    calls,      \* how many client operations have been called
    status,     \* of that call: "idle", "pending", "returned" or "threw"
    reqs,       \* the requests that call issued, in the order issued
    resp,       \* the state of each of those requests
    arrival,    \* the indices of the settled requests, in order of arrival
    result,     \* what the call returned
    error,      \* what the call threw
    sent,       \* the Authorization headers of all requests sent so far
    unanswered, \* the requests in flight that the endpoint will never answer
    logger,     \* utils/logger: errorTransport, hasErrors, the winston logger's
                \* transports and the Logger methods called so far
    test,       \* the test case that is running
    pc,         \* where it stands: "idle", at one of its awaits, or "done"
    runStart,   \* how many Logger calls had been made when it started
    checks,     \* the assertMatch calls it has evaluated, in order
    verdict,    \* how it ended, the error it caught and the error it threw
    expectedNetWorth, \* net-worth scenario: the sum of the fetched portfolios
    reported,   \* afterTest: the test it was called for (title, passed, error)
    hookPc,     \* afterTest: "idle", "saving", "done" or "rejected"; "cleared"
                \* after clearScreenshots
    attempts,   \* the paths browser.saveScreenshot was called with by this hook
    captured,   \* the calls of captureFailure so far: testName, timestamp,
                \* sanitized and filepath of each
    files,      \* the files in the screenshots directory
    reports,    \* how many tests have been reported to the hook
    obStatus,   \* completeOnboarding: "idle", "running", "returned" or "threw"
    password,   \* its argument
    executed,   \* the steps it has executed, in order
    page,       \* the page: the phrase shown, the inputs filled, the buttons clicked
    recoveryPhrase, \* the phrase extracted
    returned,   \* the value returned
    walletPage, \* the wallet management page: its toggle switches, whether the
                \* recovery-phrase header is displayed, the titles under it
    walletCall, \* the WalletManagementPage method called and its argument
    walletStatus, \* "idle", "running", "returned" or "threw"
    walletSteps,  \* manageRecoveryPhraseToggles: the steps it has run, in order
    clicked,    \* the elements clicked, in order
    walletResult  \* the value returned or the message of the error thrown

vvars == <<toleranceArg, tolerance, op, actual, expected, items, selector, outcome, value, summary>>

cvars == <<baseUrl, authToken, call, calls, status, reqs, resp, arrival, result, error, sent,
           unanswered>>

tvars == <<test, pc, runStart, checks, verdict, expectedNetWorth>>

hvars == <<reported, hookPc, attempts, captured, files, reports>>

ovars == <<obStatus, password, executed, page, recoveryPhrase, returned>>

wvars == <<walletPage, walletCall, walletStatus, walletSteps, clicked, walletResult>>

vars == <<vvars, cvars, logger, tvars, hvars, ovars, wvars>>

NoCall == [operation |-> "none", addresses |-> <<>>, currency |-> Omitted, network |-> Omitted]

\* no test case is running
InitTests ==
    /\ test = NoTest
    /\ pc = "idle"
    /\ runStart = 0
    /\ checks = <<>>
    /\ verdict = NoVerdict
    /\ expectedNetWorth = Undef

\* no test has been reported, the screenshots directory is empty
InitHooks ==
    /\ reported = NoReport
    /\ hookPc = "idle"
    /\ attempts = <<>>
    /\ captured = {}
    /\ files = {}
    /\ reports = 0

\* the onboarding page, showing any recovery phrase; nothing called yet
InitOnboarding ==
    /\ obStatus = "idle"
    /\ password = ""
    /\ executed = <<>>
    /\ page \in [mnemonic : BSeq(Words, MaxWords), typed : {<<>>}, newPassword : {""},
                  repeatPassword : {""}, clicks : {<<>>}]
    /\ recoveryPhrase = <<>>
    /\ returned = <<>>

\* the wallet management page in any state; no method called yet
InitWallet ==
    /\ walletPage \in [toggles : ToggleSwitches, headerDisplayed : BOOLEAN,
                        titles : WalletTitles]
    /\ walletCall = NoWalletCall
    /\ walletStatus = "idle"
    /\ walletSteps = <<>>
    /\ clicked = <<>>
    /\ walletResult = "none"

\* new SolflareApiClient(arg): nothing called yet
InitClient ==
    /\ baseUrl \in {NewClientBaseUrl(arg) : arg \in {Omitted} \cup BaseUrls}
    /\ authToken \in Uuids
    /\ call = NoCall
    /\ calls = 0
    /\ status = "idle"
    /\ reqs = <<>>
    /\ resp = <<>>
    /\ arrival = <<>>
    /\ result = <<>>
    /\ error = NoError
    /\ sent = {}
    /\ unanswered = {}

\* a validator constructed with any of the tolerance arguments; nothing called yet
InitValidator ==
    /\ toleranceArg \in ToleranceArgs
    /\ tolerance = NewValidator(toleranceArg)
    /\ op = "new"
    /\ actual = Undef
    /\ expected = Undef
    /\ items = <<>>
    /\ selector = "none"
    /\ outcome = "ok"
    /\ value = Undef
    /\ summary = <<>>

\* the static helpers, about to be applied to any input sequence
InitSums ==
    /\ toleranceArg = Undef
    /\ tolerance = NewValidator(toleranceArg)
    /\ summary = <<>>
    /\ op = "new"
    /\ actual = Undef
    /\ expected = Undef
    /\ \/ selector = "token" /\ items \in BSeq(Tokens, MaxLen)
       \/ selector = "total" /\ items \in BSeq(Portfolios, MaxLen)
       \/ selector = "valueOrZero" /\ items \in BSeq(DataEntries, MaxLen)
    /\ outcome = "ok"
    /\ value = Undef

(***************************************************************************)
(* Validator operations                                                    *)
(***************************************************************************)
\* validator.assertMatch(a, e, label)
CallAssertMatch ==
    \E a \in Money, e \in Money :
        /\ op' = "assertMatch"
        /\ actual' = a
        /\ expected' = e
        /\ outcome' = AssertMatch(a, e, tolerance)
        /\ tolerance' = AssertMatchTolerance(tolerance)
        /\ UNCHANGED <<toleranceArg, items, selector, value, summary>>
        /\ UNCHANGED <<cvars, logger, tvars, hvars, ovars, wvars>>

\* validator.logSummary(title, data)
CallLogSummary ==
    \E data \in BSeq(SummaryValues, MaxLen) :
        /\ op' = "logSummary"
        /\ items' = data
        /\ summary' = LogSummary(data)
        /\ outcome' = "ok"
        /\ UNCHANGED <<toleranceArg, tolerance, actual, expected, selector, value>>
        /\ UNCHANGED <<cvars, logger, tvars, hvars, ovars, wvars>>

\* PortfolioValidator.tokenValue(tokens)
CallTokenValue ==
    /\ op = "new"
    /\ selector = "token"
    /\ op' = "tokenValue"
    /\ value' = TokenValue(items)
    /\ UNCHANGED <<toleranceArg, tolerance, actual, expected, items, selector, outcome, summary>>
    /\ UNCHANGED <<cvars, logger, tvars, hvars, ovars, wvars>>

\* PortfolioValidator.sum(portfolios, p => p.value.total) and
\* PortfolioValidator.sum(data || [], w => w.value || 0)
CallSum ==
    /\ op = "new"
    /\ selector \in {"total", "valueOrZero"}
    /\ op' = "sum"
    /\ value' = Sum(items, selector)
    /\ UNCHANGED <<toleranceArg, tolerance, actual, expected, items, selector, outcome, summary>>
    /\ UNCHANGED <<cvars, logger, tvars, hvars, ovars, wvars>>

\* PortfolioValidator.sum(data || [], w => w.value || 0) for a body without
\* data: the argument is the empty array
CallSumMissingData ==
    /\ op = "new"
    /\ selector = "valueOrZero"
    /\ op' = "sumMissing"
    /\ value' = Sum(<<>>, selector)
    /\ UNCHANGED <<toleranceArg, tolerance, actual, expected, items, selector, outcome, summary>>
    /\ UNCHANGED <<cvars, logger, tvars, hvars, ovars, wvars>>

(***************************************************************************)
(* Client operations                                                       *)
(***************************************************************************)
\* a call starts: its requests go out in the order given and are in flight
Send(c, requests) ==
    /\ calls' = calls + 1
    /\ call' = c
    /\ reqs' = requests
    /\ resp' = [i \in 1..Len(requests) |-> Inflight]
    /\ arrival' = <<>>
    /\ status' = CallOutcome(c.operation, resp', arrival').status
    /\ result' = CallOutcome(c.operation, resp', arrival').result
    /\ error' = CallOutcome(c.operation, resp', arrival').error
    /\ sent' = sent \cup {requests[i].headers.Authorization : i \in 1..Len(requests)}
    /\ unanswered' = {}
    /\ UNCHANGED <<baseUrl, authToken>>

\* a call made on its own, when no other call is under way
Issue(c, requests) ==
    /\ status = "idle"
    /\ calls < MaxCalls
    /\ Send(c, requests)
    /\ UNCHANGED <<vvars, logger, tvars, hvars, ovars, wvars>>

\* api.getPortfolio(address, network)
GetPortfolio ==
    \E address \in Addresses, network \in NetworkArgs :
        Issue([operation |-> "getPortfolio", addresses |-> <<address>>,
               currency |-> Omitted, network |-> network],
              <<GetPortfolioRequest(baseUrl, authToken, address)>>)

\* api.getBalances(addresses, currency, network)
GetBalances ==
    \E addresses \in BSeq(Addresses, MaxAddrs), currency \in CurrencyArgs, network \in NetworkArgs :
        Issue([operation |-> "getBalances", addresses |-> addresses,
               currency |-> currency, network |-> network],
              <<GetBalancesRequest(baseUrl, authToken, addresses)>>)

\* a batch call that fetches every distinct address once
\* (mutant of GetMultiplePortfolios)
GetDistinctPortfolios ==
    \E addresses \in BSeq(Addresses, MaxAddrs), network \in MultipleNetworkArgs :
        LET first == SelectSeq([i \in 1..Len(addresses) |-> i],
                               LAMBDA i : \A j \in 1..(i - 1) : addresses[j] # addresses[i])
        IN  Issue([operation |-> "getMultiplePortfolios", addresses |-> addresses,
                   currency |-> Omitted, network |-> network],
                  [k \in 1..Len(first) |->
                      GetPortfolioRequest(baseUrl, authToken, addresses[first[k]])])

\* api.getMultiplePortfolios(addresses, network): the map runs every
\* getPortfolio up to its await, so all requests are issued before any settles
GetMultiplePortfolios ==
    \E addresses \in BSeq(Addresses, MaxAddrs), network \in MultipleNetworkArgs :
        Issue([operation |-> "getMultiplePortfolios", addresses |-> addresses,
               currency |-> Omitted, network |-> network],
              [i \in 1..Len(addresses) |-> GetPortfolioRequest(baseUrl, authToken, addresses[i])])

\* one request in flight settles (the endpoint answers, or the transport
\* fails) and the code awaiting it runs on
Settle ==
    \E i \in 1..Len(reqs) :
        /\ resp[i].state = "inflight"
        /\ i \notin unanswered
        /\ \E r \in Settlements(reqs[i]) :
            /\ resp' = [resp EXCEPT ![i] = r]
            /\ arrival' = Append(arrival, i)
            /\ status' = CallOutcome(call.operation, resp', arrival').status
            /\ result' = CallOutcome(call.operation, resp', arrival').result
            /\ error' = CallOutcome(call.operation, resp', arrival').error
        /\ UNCHANGED <<baseUrl, authToken, call, calls, reqs, sent, unanswered>>
        /\ UNCHANGED <<vvars, logger, tvars, hvars, ovars, wvars>>

\* the endpoint accepts the connection of a request and then never answers.
\* No request carries a timeout option (axios then waits without limit), so
\* nothing on the client's side ends such a request.
EndpointHangs ==
    \E i \in 1..Len(reqs) :
        /\ resp[i].state = "inflight"
        /\ i \notin unanswered
        /\ unanswered' = unanswered \cup {i}
        /\ UNCHANGED <<baseUrl, authToken, call, calls, status, reqs, resp, arrival, result,
                       error, sent>>
        /\ UNCHANGED <<vvars, logger, tvars, hvars, ovars, wvars>>

\* the caller is done with the call's result or error: the scenario ends, the
\* fetched data are discarded, and requests still in flight are never looked at
Discard ==
    /\ status' = "idle"
    /\ call' = NoCall
    /\ reqs' = <<>>
    /\ resp' = <<>>
    /\ arrival' = <<>>
    /\ result' = <<>>
    /\ error' = NoError
    /\ unanswered' = {}
    /\ UNCHANGED <<baseUrl, authToken, calls, sent>>

Finish ==
    /\ status \in {"returned", "threw"}
    /\ Discard
    /\ UNCHANGED <<vvars, logger, tvars, hvars, ovars, wvars>>

(***************************************************************************)
(* Logger operations                                                       *)
(***************************************************************************)
\* logger.testEnd(testName, passed), passed defaulting to true
LoggerTestEnd ==
    \E passed \in {Omitted, "true", "false"} :
        /\ Len(logger.calls) < MaxLogCalls
        /\ logger' = LoggerCall(logger, IF passed = "false" THEN "testEnd(false)"
                                        ELSE "testEnd(true)")
        /\ UNCHANGED <<vvars, cvars, tvars, hvars, ovars, wvars>>

\* logger.error(message, error)
LoggerError ==
    /\ Len(logger.calls) < MaxLogCalls
    /\ logger' = LoggerCall(logger, "error")
    /\ UNCHANGED <<vvars, cvars, tvars, hvars, ovars, wvars>>

\* logger.testStart, info, warn, debug and the methods that log like them
LoggerLog ==
    \E method \in OtherMethods \ {"testEnd(true)"} :
        /\ Len(logger.calls) < MaxLogCalls
        /\ logger' = LoggerCall(logger, method)
        /\ UNCHANGED <<vvars, cvars, tvars, hvars, ovars, wvars>>

(***************************************************************************)
(* Test cases                                                              *)
(***************************************************************************)
\* a test case starts: logger.testStart, the Logger calls up to its first
\* await, and the call awaited
StartTest(kind, c, requests, before, at) ==
    /\ pc = "idle"
    /\ status = "idle"
    /\ calls < MaxCalls
    /\ test' = [kind |-> kind, call |-> c.operation]
    /\ runStart' = Len(logger.calls)
    /\ logger' = LoggerCalls(logger, <<"testStart">> \o before)
    /\ Send(c, requests)
    /\ pc' = at
    /\ checks' = <<>>
    /\ verdict' = NoVerdict
    /\ expectedNetWorth' = Undef
    /\ UNCHANGED <<vvars, hvars, ovars, wvars>>

\* Scenario 1, for one of ADDRESSES, up to await api.getPortfolio(address, 'mainnet')
StartPortfolioTest ==
    \E i \in 1..Len(ADDRESSES) :
        StartTest("portfolio",
                  [operation |-> "getPortfolio", addresses |-> <<ADDRESSES[i]>>,
                   currency |-> Omitted, network |-> "mainnet"],
                  <<GetPortfolioRequest(baseUrl, authToken, ADDRESSES[i])>>,
                  <<"section">>, "awaitPortfolio")

\* Scenario 1 after the portfolio arrived: summary, the two validations, and
\* the end of the try block or the catch block
PortfolioTestValidates ==
    /\ pc = "awaitPortfolio"
    /\ status = "returned"
    /\ \E tokens \in ScenarioTokens, tokensValue \in TokensValueTotals,
          stocksValue \in StocksValueTotals :
          LET total == result[1].total
              ev == EvaluatedChecks(
                        <<Check("Calculated Total", TokenValue(tokens), total, tolerance),
                          Check("Combined Total", total, JsAdd(tokensValue, stocksValue),
                                tolerance)>>)
              end == EndOfTry(LoggerCalls(logger, <<"apiResponse", "summary">> \o ChecksLog(ev)),
                              ErrorOfChecks(ev))
          IN  /\ checks' = ev
              /\ logger' = end.logger
              /\ verdict' = end.verdict
    /\ pc' = "done"
    /\ UNCHANGED <<test, runStart, expectedNetWorth, vvars, cvars, hvars, ovars, wvars>>

\* Scenario 2 up to await api.getMultiplePortfolios(ADDRESSES, 'mainnet')
StartNetWorthTest ==
    StartTest("netWorth",
              [operation |-> "getMultiplePortfolios", addresses |-> ADDRESSES,
               currency |-> Omitted, network |-> "mainnet"],
              [i \in 1..Len(ADDRESSES) |-> GetPortfolioRequest(baseUrl, authToken, ADDRESSES[i])],
              <<"section">>, "awaitPortfolios")

\* Scenario 2 after the portfolios arrived: one logger.info per wallet, the
\* expected net worth, and on to await api.getBalances(ADDRESSES, 'usd', 'mainnet')
NetWorthTestFetchesBalances ==
    /\ pc = "awaitPortfolios"
    /\ status = "returned"
    /\ expectedNetWorth' = Sum(result, "total")
    /\ logger' = LoggerCalls(logger, [i \in 1..Len(result) |-> "info"] \o <<"info", "section">>)
    /\ Send([operation |-> "getBalances", addresses |-> ADDRESSES,
             currency |-> "usd", network |-> "mainnet"],
            <<GetBalancesRequest(baseUrl, authToken, ADDRESSES)>>)
    /\ pc' = "awaitBalances"
    /\ UNCHANGED <<test, runStart, checks, verdict, vvars, hvars, ovars, wvars>>

\* Scenario 2 after the balances arrived: summary, the two validations, and
\* the end of the try block or the catch block
NetWorthTestValidates ==
    /\ pc = "awaitBalances"
    /\ status = "returned"
    /\ \E data \in ScenarioData :
          LET netWorth == result[1].total
              ev == EvaluatedChecks(
                        <<Check("Net Worth", netWorth, expectedNetWorth, tolerance),
                          Check("Data Sum", netWorth, Sum(data, "valueOrZero"), tolerance)>>)
              end == EndOfTry(LoggerCalls(logger, <<"apiResponse", "summary">> \o ChecksLog(ev)),
                              ErrorOfChecks(ev))
          IN  /\ checks' = ev
              /\ logger' = end.logger
              /\ verdict' = end.verdict
    /\ pc' = "done"
    /\ UNCHANGED <<test, runStart, expectedNetWorth, vvars, cvars, hvars, ovars, wvars>>

\* a positive test whose awaited call threw: the catch block
TestCatchesFetchError ==
    /\ pc \in {"awaitPortfolio", "awaitPortfolios", "awaitBalances"}
    /\ status = "threw"
    /\ logger' = EndOfTry(logger, error).logger
    /\ verdict' = EndOfTry(logger, error).verdict
    /\ pc' = "done"
    /\ UNCHANGED <<test, runStart, checks, expectedNetWorth, vvars, cvars, hvars, ovars, wvars>>

\* a negative test up to its await: the call is expected to throw
StartNegativeTest ==
    \E c \in NegativeCalls :
        StartTest("negative", c,
                  IF c.operation = "getPortfolio"
                  THEN <<GetPortfolioRequest(baseUrl, authToken, c.addresses[1])>>
                  ELSE <<GetBalancesRequest(baseUrl, authToken, c.addresses)>>,
                  <<"section", "info">>, "awaitNegative")

\* a negative test after its call settled
NegativeTestResumes ==
    /\ pc = "awaitNegative"
    /\ status \in {"returned", "threw"}
    /\ logger' = EndOfNegativeTry(logger, status, error).logger
    /\ verdict' = EndOfNegativeTry(logger, status, error).verdict
    /\ pc' = "done"
    /\ UNCHANGED <<test, runStart, checks, expectedNetWorth, vvars, cvars, hvars, ovars, wvars>>

\* the test case is over: the runner goes on to the next one
EndTest ==
    /\ pc = "done"
    /\ Discard
    /\ pc' = "idle"
    /\ test' = NoTest
    /\ checks' = <<>>
    /\ verdict' = NoVerdict
    /\ expectedNetWorth' = Undef
    /\ UNCHANGED <<runStart, logger, vvars, hvars, ovars, wvars>>

(***************************************************************************)
(* The afterTest hook                                                      *)
(***************************************************************************)
\* afterTest(test, context, { error, passed }) up to its first await: for a
\* failed test captureFailure up to await browser.saveScreenshot(filepath),
\* for a passed test the whole hook
AfterTest ==
    \E title \in TestTitles, passed \in BOOLEAN, err \in BOOLEAN, now \in Timestamps :
        /\ hookPc = "idle"
        /\ reports < MaxReports
        /\ reports' = reports + 1
        /\ reported' = [title |-> title, passed |-> passed, error |-> err]
        /\ IF passed
           THEN /\ logger' = LoggerCalls(logger, <<"info", "info">>)
                /\ attempts' = <<>>
                /\ captured' = captured
                /\ hookPc' = "done"
           ELSE /\ logger' = logger
                /\ attempts' = <<FailurePath(title, now)>>
                /\ captured' = captured \cup
                        {[testName |-> title, timestamp |-> now,
                          sanitized |-> SanitizeFilename(title),
                          filepath |-> FailurePath(title, now)]}
                /\ hookPc' = "saving"
        /\ UNCHANGED <<files, vvars, cvars, tvars, ovars, wvars>>

\* browser.saveScreenshot(filepath) fulfils: captureFailure logs and returns,
\* and afterTest logs the failure
ScreenshotSaved ==
    /\ hookPc = "saving"
    /\ files' = files \cup {[path |-> attempts[1], last4 |-> ".png"]}
    /\ logger' = LoggerCalls(logger,
                    <<"info", ErrorCall("Test failed")>>
                    \o (IF reported.error THEN <<ErrorCall("Failure details")>> ELSE <<>>)
                    \o <<"info">>)
    /\ hookPc' = "done"
    /\ UNCHANGED <<reported, attempts, captured, reports, vvars, cvars, tvars, ovars, wvars>>

\* browser.saveScreenshot(filepath) rejects: captureFailure logs the error
\* and rethrows it, and afterTest, which does not catch it, rejects
ScreenshotFailed ==
    /\ hookPc = "saving"
    /\ logger' = LoggerCall(logger, ErrorCall("Failed to capture screenshot"))
    /\ hookPc' = "rejected"
    /\ UNCHANGED <<reported, attempts, captured, files, reports, vvars, cvars, tvars, ovars, wvars>>

\* the runner goes on to the next test
HookReturns ==
    /\ hookPc \in {"done", "rejected", "cleared"}
    /\ hookPc' = "idle"
    /\ reported' = NoReport
    /\ attempts' = <<>>
    /\ UNCHANGED <<captured, files, reports, logger, vvars, cvars, tvars, ovars, wvars>>

\* the screenshots directory as the run finds it: a file the helper did not
\* write has been put there
FileAppears ==
    \E file \in OtherFiles \ files :
        /\ hookPc = "idle"
        /\ reports = 0
        /\ logger.calls = <<>>
        /\ files' = files \cup {file}
        /\ UNCHANGED <<reported, hookPc, attempts, captured, reports, logger, vvars, cvars,
                       tvars, ovars, wvars>>

\* clearScreenshots(), called once: unlinks every file getScreenshots lists,
\* then logs
ClearScreenshots ==
    /\ hookPc = "idle"
    /\ \A i \in 1..Len(logger.calls) : logger.calls[i] # ClearedCall
    /\ files' = files \ GetScreenshots(files)
    /\ logger' = LoggerCall(logger, ClearedCall)
    /\ hookPc' = "cleared"
    /\ UNCHANGED <<reported, attempts, captured, reports, vvars, cvars, tvars, ovars, wvars>>

(***************************************************************************)
(* Onboarding                                                              *)
(***************************************************************************)
\* completeOnboarding(password) is called
CompleteOnboarding ==
    \E pw \in Passwords :
        /\ obStatus = "idle"
        /\ obStatus' = "running"
        /\ password' = pw
        /\ UNCHANGED <<executed, page, recoveryPhrase, returned, vvars, cvars, logger, tvars,
                       hvars, wvars>>

\* the next step runs to its end; extractRecoveryPhrase reads the value of
\* every phrase input in turn
StepSucceeds ==
    /\ obStatus = "running"
    /\ Len(executed) < Len(OnboardingSteps)
    /\ LET step == OnboardingSteps[Len(executed) + 1]
       IN  /\ executed' = Append(executed, step)
           /\ IF step = "extractRecoveryPhrase"
              THEN /\ recoveryPhrase' = [i \in 1..Len(page.mnemonic) |-> page.mnemonic[i]]
                   /\ page' = page
              ELSE /\ recoveryPhrase' = recoveryPhrase
                   /\ page' = PageAfter(step, page, recoveryPhrase, password)
    /\ UNCHANGED <<obStatus, password, returned, vvars, cvars, logger, tvars, hvars, wvars>>

\* an await of the next step rejects (an element does not show up in time, the
\* session fails): completeOnboarding rejects with it; enterRecoveryPhrase
\* may have typed some of the words by then
StepFails ==
    /\ obStatus = "running"
    /\ Len(executed) < Len(OnboardingSteps)
    /\ LET step == OnboardingSteps[Len(executed) + 1]
       IN  /\ executed' = Append(executed, step)
           /\ IF step = "enterRecoveryPhrase"
              THEN \E n \in 0..(IF recoveryPhrase = <<>> THEN 0 ELSE Len(recoveryPhrase) - 1) :
                       page' = [page EXCEPT !.typed = Typed(recoveryPhrase, n)]
              ELSE page' = page
    /\ obStatus' = "threw"
    /\ UNCHANGED <<password, recoveryPhrase, returned, vvars, cvars, logger, tvars, hvars, wvars>>

\* return recoveryPhrase
OnboardingReturns ==
    /\ obStatus = "running"
    /\ Len(executed) = Len(OnboardingSteps)
    /\ obStatus' = "returned"
    /\ returned' = recoveryPhrase
    /\ UNCHANGED <<password, executed, page, recoveryPhrase, vvars, cvars, logger, tvars, hvars, wvars>>

(***************************************************************************)
(* Wallet management                                                       *)
(***************************************************************************)
\* verifyWalletsInList(walletNames = []): waits for the recovery-phrase
\* header, reads the titles under it and looks every expected name up
VerifyWalletsInList ==
    \E omitted \in BOOLEAN, list \in BSeq(WalletNames, MaxNames) :
        LET names == IF omitted THEN <<>> ELSE list
        IN  /\ walletStatus = "idle"
            /\ omitted => list = <<>>
            /\ walletCall' = [operation |-> "verifyWalletsInList", walletNames |-> names]
            /\ walletResult' = VerifyWalletsOutcome(walletPage, names)
            /\ walletStatus' = IF walletResult' = "true" THEN "returned" ELSE "threw"
            /\ logger' = LoggerCalls(logger,
                            <<"section">> \o (IF walletPage.headerDisplayed
                                              THEN VerifyWalletsLog(walletPage, names)
                                              ELSE <<>>))
            /\ UNCHANGED <<walletPage, walletSteps, clicked, vvars, cvars, tvars, hvars, ovars>>

\* manageRecoveryPhraseToggles() is called
ManageRecoveryPhraseToggles ==
    /\ walletStatus = "idle"
    /\ walletCall' = [operation |-> "manageRecoveryPhraseToggles", walletNames |-> <<>>]
    /\ walletStatus' = "running"
    /\ logger' = LoggerCall(logger, "section")
    /\ UNCHANGED <<walletPage, walletSteps, clicked, walletResult, vvars, cvars, tvars, hvars,
                   ovars>>

\* the commands of its next step are answered: verifyFirstToggleState and
\* selectToggles throw when the switches are not as expected; after clickSave
\* manageRecoveryPhraseToggles returns
ManageStepRuns ==
    /\ walletStatus = "running"
    /\ Len(walletSteps) < Len(ManageSteps)
    /\ LET step == ManageSteps[Len(walletSteps) + 1]
           toggles == walletPage.toggles
           thrown ==
               CASE step = "verifyFirstToggleState" -> VerifyFirstToggleState(toggles)
                 [] step = "selectToggles" /\ Len(toggles) < 4 ->
                        "Expected at least 4 toggles but found " \o ToString(Len(toggles))
                 [] OTHER -> "true"
       IN  /\ walletSteps' = Append(walletSteps, step)
           /\ clicked' =
                 clicked \o
                 CASE thrown # "true" -> <<>>
                   [] step = "clickAddWallet" -> <<"addWalletBtn">>
                   [] step = "selectManageRecoveryPhrase" -> <<"manageOption">>
                   [] step = "selectToggles" -> <<"toggles[2]", "toggles[3]">>
                   [] step = "clickSave" -> <<"saveBtn">>
                   [] OTHER -> <<>>
           /\ walletStatus' = IF thrown # "true" THEN "threw"
                              ELSE IF step = "clickSave" THEN "returned" ELSE "running"
           /\ walletResult' = IF thrown # "true" THEN thrown
                              ELSE IF step = "clickSave" THEN "undefined" ELSE walletResult
           /\ logger' = LoggerCalls(logger,
                            CASE thrown # "true" /\ step = "verifyFirstToggleState"
                                    /\ Len(toggles) > 0 /\ ~toggles[1].enabled ->
                                        <<"action", "step", "error">>
                              [] thrown # "true" -> <<"action", "error">>
                              [] step \in {"verifyFirstToggleState", "selectToggles"} ->
                                        <<"action", "step", "step">>
                              [] step = "clickSave" -> <<"action", "step", "verify">>
                              [] OTHER -> <<"action", "step">>)
    /\ UNCHANGED <<walletPage, walletCall, vvars, cvars, tvars, hvars, ovars>>

\* a command of its next step rejects: manageRecoveryPhraseToggles rejects with
\* it; selectToggles may have clicked the 3rd switch by then
ManageStepFails ==
    /\ walletStatus = "running"
    /\ Len(walletSteps) < Len(ManageSteps)
    /\ LET step == ManageSteps[Len(walletSteps) + 1]
       IN  /\ walletSteps' = Append(walletSteps, step)
           /\ \E first \in BOOLEAN :
                 /\ first => step = "selectToggles" /\ Len(walletPage.toggles) >= 4
                 /\ clicked' = clicked \o (IF first THEN <<"toggles[2]">> ELSE <<>>)
                 /\ logger' = LoggerCalls(logger,
                                  <<"action">> \o (IF first THEN <<"step">> ELSE <<>>))
    /\ walletStatus' = "threw"
    /\ walletResult' = WebdriverError
    /\ UNCHANGED <<walletPage, walletCall, vvars, cvars, tvars, hvars, ovars>>

(***************************************************************************)
(* Specifications                                                          *)
(***************************************************************************)
NextValidator ==
    \/ CallAssertMatch
    \/ CallLogSummary

NextSums ==
    \/ CallTokenValue
    \/ CallSum
    \/ CallSumMissingData

NextClient ==
    \/ GetPortfolio
    \/ GetBalances
    \/ GetMultiplePortfolios
    \/ Settle
    \/ EndpointHangs
    \/ Finish

NextLogger ==
    \/ LoggerTestEnd
    \/ LoggerError
    \/ LoggerLog

NextTests ==
    \/ StartPortfolioTest
    \/ PortfolioTestValidates
    \/ StartNetWorthTest
    \/ NetWorthTestFetchesBalances
    \/ NetWorthTestValidates
    \/ TestCatchesFetchError
    \/ StartNegativeTest
    \/ NegativeTestResumes
    \/ Settle
    \/ EndTest

NextHooks ==
    \/ AfterTest
    \/ ScreenshotSaved
    \/ ScreenshotFailed
    \/ HookReturns
    \/ FileAppears
    \/ ClearScreenshots

NextOnboarding ==
    \/ CompleteOnboarding
    \/ StepSucceeds
    \/ StepFails
    \/ OnboardingReturns

NextWallet ==
    \/ VerifyWalletsInList
    \/ ManageRecoveryPhraseToggles
    \/ ManageStepRuns
    \/ ManageStepFails

\* one client and one validator, as the suites construct them in before()
IdleClient == InitClient /\ baseUrl = DefaultBaseUrl /\ authToken = "uuid-a"

IdleValidator == InitValidator /\ toleranceArg = Num(DefaultTolerance)

IdleOnboarding == InitOnboarding /\ page.mnemonic = <<>>

\* the page of the test: four switches, the first disabled and on
IdleWallet ==
    /\ InitWallet
    /\ walletPage.headerDisplayed
    /\ walletPage.titles = <<"Main Wallet">>
    /\ Len(walletPage.toggles) = 4
    /\ walletPage.toggles[1] = [enabled |-> FALSE, dataState |-> "checked"]

InitSpecValidator == InitValidator /\ IdleClient /\ logger = NewLogger /\ InitTests /\ InitHooks /\ IdleOnboarding /\ IdleWallet

InitSpecSums == InitSums /\ IdleClient /\ logger = NewLogger /\ InitTests /\ InitHooks /\ IdleOnboarding /\ IdleWallet

InitSpecClient == InitClient /\ IdleValidator /\ logger = NewLogger /\ InitTests /\ InitHooks /\ IdleOnboarding /\ IdleWallet

InitSpecLogger == logger = NewLogger /\ IdleClient /\ IdleValidator /\ InitTests /\ InitHooks /\ IdleOnboarding /\ IdleWallet

InitSpecTests == InitTests /\ IdleClient /\ IdleValidator /\ logger = NewLogger /\ InitHooks /\ IdleOnboarding /\ IdleWallet

InitSpecHooks == InitHooks /\ IdleClient /\ IdleValidator /\ logger = NewLogger /\ InitTests /\ IdleOnboarding /\ IdleWallet

InitSpecOnboarding ==
    InitOnboarding /\ InitHooks /\ IdleClient /\ IdleValidator /\ logger = NewLogger /\ InitTests
        /\ IdleWallet

SpecValidator == InitSpecValidator /\ [][NextValidator]_vars

SpecSums == InitSpecSums /\ [][NextSums]_vars

SpecClient == InitSpecClient /\ [][NextClient]_vars

SpecLogger == InitSpecLogger /\ [][NextLogger]_vars

SpecTests == InitSpecTests /\ [][NextTests]_vars

SpecHooks == InitSpecHooks /\ [][NextHooks]_vars

SpecOnboarding == InitSpecOnboarding /\ [][NextOnboarding]_vars

InitSpecWallet ==
    InitWallet /\ IdleOnboarding /\ InitHooks /\ IdleClient /\ IdleValidator
        /\ logger = NewLogger /\ InitTests

SpecWallet == InitSpecWallet /\ [][NextWallet]_vars

(***************************************************************************)
(* Properties of the validator                                             *)
(***************************************************************************)
\* |a - e| < tol over the integers, without Math.abs
StrictlyWithin(a, e, tol) ==
    /\ IsNum(a) /\ IsNum(e) /\ IsNum(tol)
    /\ a.n - e.n < tol.n
    /\ e.n - a.n < tol.n

\* C1: on numbers, assertMatch(actual, expected, label) throws (an assertion
\* error) exactly when |actual - expected| is not strictly less than the
\* validator's tolerance and returns normally otherwise; a difference equal to
\* the tolerance fails, and with tolerance 0.01 a difference of 0.005 passes
\* while 0.02 fails.
C1_AssertMatchStrict ==
    (op = "assertMatch" /\ HasToFixed(actual) /\ HasToFixed(expected)) =>
        /\ (outcome = "ok") <=> StrictlyWithin(actual, expected, tolerance)
        /\ outcome \in {"ok", "AssertionError"}
        /\ (tolerance = Num(10) /\ IsNum(actual) /\ IsNum(expected)) =>
              /\ actual.n - expected.n = 5 => outcome = "ok"
              /\ actual.n - expected.n = 10 => outcome = "AssertionError"
              /\ expected.n - actual.n = 20 => outcome = "AssertionError"

\* C1 witness: tolerance 0.01 and a difference of exactly 0.01: the call throws
C1_Witness ==
    /\ op = "assertMatch"
    /\ tolerance = Num(10)
    /\ actual = Num(15)
    /\ expected = Num(25)
    /\ outcome = "AssertionError"

\* quantity and unit price of a token, a missing or null field counting as 0
FieldOrZero(v) == IF IsNum(v) THEN v.n ELSE 0

PriceOrZero(t) == IF t.price.t = "obj" THEN FieldOrZero(t.price.usdPrice) ELSE 0

RECURSIVE TokenTotal(_)
TokenTotal(ts) ==
    IF ts = <<>> THEN 0
    ELSE FieldOrZero(Head(ts).totalUiAmount) * PriceOrZero(Head(ts)) + TokenTotal(Tail(ts))

\* C2: tokenValue(tokens) is the sum over the tokens of quantity times unit
\* price, a token whose quantity or price is missing or null contributing 0;
\* (10 at 2.5) and (4 at 0) give 25 and the empty sequence gives 0.
C2_TokenValueIsSum ==
    op = "tokenValue" =>
        /\ value = Num(TokenTotal(items))
        /\ items = <<>> => value = Num(0)
        /\ (Len(items) = 2
              /\ items[1].totalUiAmount = Num(10) /\ items[1].price = [t |-> "obj", usdPrice |-> Num(2500)]
              /\ items[2].totalUiAmount = Num(4) /\ items[2].price = [t |-> "obj", usdPrice |-> Num(0)])
           => value = Num(25000)

\* C2 witness: a priced token followed by a token that has no price object
C2_Witness ==
    /\ op = "tokenValue"
    /\ Len(items) = 2
    /\ items[1].totalUiAmount = Num(10)
    /\ items[1].price = [t |-> "obj", usdPrice |-> Num(2500)]
    /\ items[2].totalUiAmount = Num(4)
    /\ items[2].price.t = "undef"
    /\ value = Num(25000)

\* the value the selector's field holds for an item, before any "|| 0"
RawField(sel, item) == IF sel = "total" THEN item.total ELSE item.value

RECURSIVE PresentTotal(_, _)
PresentTotal(sel, its) ==
    IF its = <<>> THEN 0
    ELSE FieldOrZero(RawField(sel, Head(its))) + PresentTotal(sel, Tail(its))

\* C3: sum treats a missing or null value produced by the selector as 0: the
\* result is never NaN and equals the sum of the present values.
C3_SumMissingAsZero ==
    op = "sum" =>
        /\ value.t # "nan"
        /\ value = Num(PresentTotal(selector, items))

(***************************************************************************)
(* Properties of the client                                                *)
(***************************************************************************)
\* the value a parameter with a default takes for the caller's argument
ArgOrDefault(arg, default) == IF arg = Omitted THEN default ELSE arg

\* C4: getPortfolio(address, network) issues a GET whose network query
\* parameter is the network the caller passed, and "mainnet" when the caller
\* passed none.
C4_RequestCarriesCallerNetwork ==
    call.operation = "getPortfolio" =>
        /\ Len(reqs) = 1
        /\ reqs[1].method = "GET"
        /\ reqs[1].network = ArgOrDefault(call.network, "mainnet")

\* C5: getPortfolio(validAddress, network) with a network outside the
\* supported set ends in an error and never returns a portfolio.
C5_UnsupportedNetworkNeverReturns ==
    (/\ call.operation = "getPortfolio"
     /\ call.addresses[1] \in ValidAddresses
     /\ call.network \notin SupportedNetworks \cup {Omitted}) =>
        status # "returned"

\* C6: getBalances(addresses, currency, network) issues one POST whose pubkeys
\* are the addresses in input order, each prefixed with "1", and whose currency
\* and network are the caller's arguments ("usd" and "mainnet" when omitted).
C6_BalancesBodyFromArguments ==
    call.operation = "getBalances" =>
        /\ Len(reqs) = 1
        /\ reqs[1].method = "POST"
        /\ Len(reqs[1].pubkeys) = Len(call.addresses)
        /\ \A i \in 1..Len(call.addresses) : reqs[1].pubkeys[i] = "1" \o call.addresses[i]
        /\ reqs[1].currency = ArgOrDefault(call.currency, "usd")
        /\ reqs[1].network = ArgOrDefault(call.network, "mainnet")

EmptyBalancesCall == call.operation = "getBalances" /\ call.addresses = <<>>

C8_ResultsInInputOrder ==
    (call.operation = "getMultiplePortfolios" /\ status = "returned") =>
        /\ Len(result) = Len(call.addresses)
        /\ \A i \in 1..Len(call.addresses) :
              /\ result[i] = resp[i].data
              /\ result[i].kind = "portfolio"
              /\ result[i].url = baseUrl \o PortfolioPath \o call.addresses[i]

\* C8 witness: two different wallets, the second response arrived first
C8_Witness ==
    /\ call.operation = "getMultiplePortfolios"
    /\ status = "returned"
    /\ Len(call.addresses) = 2
    /\ call.addresses[1] # call.addresses[2]
    /\ arrival = <<2, 1>>
    /\ result[1].total # result[2].total

\* C9: if any request of getMultiplePortfolios fails, the whole call fails with
\* the error of one of the failed requests, in every interleaving of successes
\* and failures; it never returns a sequence that omits the failed entries.
C9_AnyFailureFailsAll ==
    call.operation = "getMultiplePortfolios" =>
        /\ (\E i \in 1..Len(resp) : resp[i].state = "rejected") =>
              /\ status = "threw"
              /\ \E i \in 1..Len(resp) :
                    /\ resp[i].state = "rejected"
                    /\ error.status = resp[i].status
                    /\ error.name = IF resp[i].status = 0 THEN "TransportError" ELSE "RequestRejected"
        /\ status = "returned" =>
              /\ Len(result) = Len(call.addresses)
              /\ \A i \in 1..Len(resp) : resp[i].state = "fulfilled"

\* C9 witness: the first response was a success, the second a rejection
C9_Witness ==
    /\ call.operation = "getMultiplePortfolios"
    /\ Len(arrival) = 2
    /\ resp[arrival[1]].state = "fulfilled"
    /\ resp[arrival[2]] = Rejected(400)
    /\ status = "threw"
    /\ error.name = "RequestRejected"

\* C10: the bearer token is generated once, at construction: no operation
\* changes the client's token or base URL, and every request sent so far
\* carries the client's token.
C10_TokenAndBaseUrlFixed ==
    /\ [][authToken' = authToken /\ baseUrl' = baseUrl]_vars
    /\ [](/\ sent \subseteq {"Bearer " \o authToken}
          /\ \A i \in 1..Len(reqs) : reqs[i].headers.Authorization = "Bearer " \o authToken)

\* C10 witness: a second call has returned and requests have been sent
C10_Witness ==
    /\ calls >= 2
    /\ status = "returned"
    /\ sent = {"Bearer " \o authToken}

(***************************************************************************)
(* Properties of logging and of the validator's state                     *)
(***************************************************************************)
\* the comparison of assertMatch taken alone: |actual - expected| < tolerance
ComparisonPasses(a, e, tol) == LessThan(JsAbs(JsSub(a, e)), tol)

\* C12: logging is a pure side channel: whether assertMatch passes or fails
\* is determined by the comparison alone (it passes iff the comparison
\* passes and otherwise fails with the assertion error), and neither the log
\* formatting of assertMatch nor logSummary can make the operation fail.
C12_LoggingNeverDecides ==
    /\ op = "assertMatch" =>
          /\ (outcome = "ok") <=> ComparisonPasses(actual, expected, tolerance)
          /\ outcome \in {"ok", "AssertionError"}
    /\ op = "logSummary" => outcome = "ok"

\* C16: the tolerance is the constructor's argument, 0.01 when none is given,
\* no assertMatch or logSummary call changes it, and the outcome of an
\* assertMatch call is the one a freshly constructed validator gives for the
\* same values, whatever was called before.
C16_ToleranceFixedAndStateless ==
    /\ [](/\ tolerance = NewValidator(toleranceArg)
          /\ toleranceArg = Undef => tolerance = Num(10)
          /\ op = "assertMatch" =>
                outcome = AssertMatch(actual, expected, NewValidator(toleranceArg)))
    /\ [][tolerance' = tolerance]_vars

\* C16 witness: a default-tolerance validator after a failed assertMatch and
\* a later logSummary
C16_Witness ==
    /\ toleranceArg = Undef
    /\ tolerance = Num(10)
    /\ op = "logSummary"
    /\ actual = Num(0)
    /\ expected = Num(25)
    /\ summary = <<[t |-> "usd", n |-> 123], [t |-> "undef", n |-> 0]>>

(***************************************************************************)
(* Properties of single calls                                              *)
(***************************************************************************)
\* C13: a getPortfolio or getBalances call issues exactly one request and its
\* outcome is that request's outcome: pending while the request is in flight,
\* the response body unchanged on a 2xx response, and an error (RequestRejected
\* with the response's status, TransportError without a response) otherwise,
\* with no second request and no substituted value; a malformed address never
\* yields a portfolio.
C13_OutcomeIsTheRequestsOutcome ==
    /\ [](call.operation \in {"getPortfolio", "getBalances"} =>
            /\ Len(reqs) = 1
            /\ resp[1].state = "inflight" =>
                  status = "pending" /\ result = <<>> /\ error = NoError
            /\ resp[1].state = "fulfilled" =>
                  status = "returned" /\ result = <<resp[1].data>> /\ error = NoError
            /\ resp[1].state = "rejected" =>
                  /\ status = "threw"
                  /\ result = <<>>
                  /\ error.status = resp[1].status
                  /\ error.name = IF resp[1].status = 0 THEN "TransportError"
                                  ELSE "RequestRejected"
            /\ (call.operation = "getPortfolio" /\ call.addresses = <<"invalid">>) =>
                  status # "returned")
    /\ [][status = "pending" => reqs' = reqs /\ sent' = sent]_vars

\* C13 witness: the single request for a malformed address was answered 400
\* and the call threw RequestRejected
C13_Witness ==
    /\ call.operation = "getPortfolio"
    /\ call.addresses = <<"invalid">>
    /\ resp = <<Rejected(400)>>
    /\ status = "threw"
    /\ error = [name |-> "RequestRejected", status |-> 400]

\* C14: every outbound call eventually completes: a call still pending always
\* has a request that can still end, by the endpoint's answer or by the
\* expiry of the caller's timeout with a TransportError.
C14_PendingCallCanEnd == status = "pending" => ENABLED Settle

(***************************************************************************)
(* Properties of the logger                                                *)
(***************************************************************************)
\* how many elements of a sequence lie in a set
Count(seq, S) == Cardinality({i \in 1..Len(seq) : seq[i] \in S})

\* C17: after any sequence of logger calls the error transport has been
\* added to the winston logger iff error() or testEnd(name, false) has been
\* called at least once, it has been added exactly once however many errors
\* were logged, and hasErrors is true iff errorTransport is set.
C17_ErrorTransportOnceOnError ==
    /\ Count(logger.transports, {"ErrorFile"}) =
          IF Count(logger.calls, ErrorMethods) >= 1 THEN 1 ELSE 0
    /\ logger.hasErrors <=> logger.errorTransport # "null"
    /\ logger.hasErrors <=> Count(logger.transports, {"ErrorFile"}) = 1
    /\ SubSeq(logger.transports, 1, 2) = <<"Console", "File">>

\* C17 witness: two errors were logged, by error() and by testEnd(name,
\* false), and the logger has the one error transport
C17_Witness ==
    /\ logger.calls = <<"info", "error", "testEnd(false)">>
    /\ logger.transports = <<"Console", "File", "ErrorFile">>
    /\ logger.hasErrors

(***************************************************************************)
(* Properties of the test cases                                            *)
(***************************************************************************)
\* the Logger calls of the running test case
RunLog == SubSeq(logger.calls, runStart + 1, Len(logger.calls))

PositiveTest == test.kind \in {"portfolio", "netWorth"}

\* C11: the checks of a scenario are independent: when the scenario has
\* ended and its first check exceeded the tolerance, its second check has
\* been evaluated and reported as well.
C11_SecondCheckStillEvaluated ==
    (PositiveTest /\ pc = "done" /\ checks # <<>> /\ checks[1].outcome = "AssertionError") =>
        /\ Len(checks) = 2
        /\ Count(RunLog, {"section"}) = 3

\* C15: a negative test passes only when its API call threw: when the call
\* resolved, the test fails with the assertion error 'Should have thrown an
\* error' and testEnd is not reported as passed.
C15_NegativePassesOnlyOnThrow ==
    (test.kind = "negative" /\ pc = "done") =>
        /\ verdict.result = "passed" => status = "threw"
        /\ status = "returned" =>
              /\ verdict.result = "failed"
              /\ verdict.thrown.name = "AssertionError"
              /\ Count(RunLog, {"testEnd(true)"}) = 0

\* C19: in a positive scenario testStart is followed by exactly one testEnd,
\* none before the test has ended; testEnd(name, true) is logged only after
\* the fetches returned and both assertMatch calls passed, and then the test
\* passes; on any failure the test logs the error, then testEnd(name, false),
\* and rethrows the error it caught (the call's error or the failed check's);
\* it never logs both a passing and a failing testEnd.
C19_OneTestEndPerTest ==
    PositiveTest =>
        LET log == RunLog
            last == log[Len(log)]
        IN  /\ log[1] = "testStart"
            /\ Count(log, {"testStart"}) = 1
            /\ pc # "done" =>
                  Count(log, {"testEnd(true)", "testEnd(false)", "error"}) = 0 /\ verdict = NoVerdict
            /\ pc = "done" =>
                  /\ Count(log, {"testEnd(true)", "testEnd(false)"}) = 1
                  /\ last \in {"testEnd(true)", "testEnd(false)"}
                  /\ verdict.result = IF last = "testEnd(true)" THEN "passed" ELSE "failed"
                  /\ last = "testEnd(true)" =>
                        /\ status = "returned"
                        /\ call.operation = IF test.kind = "portfolio" THEN "getPortfolio"
                                            ELSE "getBalances"
                        /\ Len(checks) = 2
                        /\ \A i \in 1..2 : checks[i].outcome = "ok"
                        /\ Count(log, {"error"}) = 0
                        /\ verdict.thrown = NoError
                  /\ last = "testEnd(false)" =>
                        /\ log[Len(log) - 1] = "error"
                        /\ Count(log, {"error"}) = 1
                        /\ verdict.thrown # NoError
                        /\ verdict.thrown = verdict.caught
                        /\ verdict.thrown = IF status = "threw" THEN error
                                            ELSE ErrorOfChecks(checks)

\* C19 witness: the net-worth scenario failed at its first check
C19_Witness ==
    /\ test.kind = "netWorth"
    /\ pc = "done"
    /\ status = "returned"
    /\ Len(checks) = 1
    /\ verdict = [result |-> "failed",
                  caught |-> [name |-> "AssertionError", status |-> 0],
                  thrown |-> [name |-> "AssertionError", status |-> 0]]
    /\ RunLog[Len(RunLog)] = "testEnd(false)"

(***************************************************************************)
(* Properties of the afterTest hook                                        *)
(***************************************************************************)
\* C18: once afterTest has ended for a test that did not pass, exactly one
\* failure screenshot was attempted, at
\* <screenshots directory>/<sanitized title>_FAILED_<timestamp>.png, and the
\* failure of the test has been logged as an error after it; for a passed
\* test no screenshot is attempted and no error is logged.
C18_FailureCapturedThenLogged ==
    /\ (hookPc \in {"done", "rejected"} /\ ~reported.passed) =>
          /\ Len(attempts) = 1
          /\ \E now \in Timestamps :
                attempts[1] = ScreenshotsDir \o "/" \o Join(SanitizeFilename(reported.title))
                                  \o "_FAILED_" \o now \o ".png"
          /\ Count(logger.calls, {ErrorCall("Test failed")}) >= 1
    /\ (hookPc \in {"done", "rejected"} /\ reported.passed /\ reports = 1) =>
          /\ attempts = <<>>
          /\ files \subseteq OtherFiles
          /\ Count(logger.calls, ErrorMethods) = 0

(***************************************************************************)
(* Properties of the onboarding flow                                       *)
(***************************************************************************)
\* C20: completeOnboarding executes its steps in the fixed order
\* clickNeedNewWallet, extractRecoveryPhrase, clickSavedPhrase,
\* enterRecoveryPhrase, clickContinue, enterPassword, clickContinue,
\* clickAgree; once enterRecoveryPhrase has completed, input i+1 holds word i
\* of the extracted phrase (counting words from 0) and nothing else was typed;
\* the extracted phrase is the value returned, after all eight steps; and
\* after a step has failed no further step is executed.
C20_OnboardingInOrder ==
    /\ [](/\ Len(executed) <= Len(OnboardingSteps)
          /\ executed = SubSeq(OnboardingSteps, 1, Len(executed))
          /\ (Len(executed) >= 2 /\ ~(obStatus = "threw" /\ Len(executed) = 2)) =>
                recoveryPhrase = page.mnemonic
          /\ (Len(executed) >= 4 /\ ~(obStatus = "threw" /\ Len(executed) = 4)) =>
                /\ DOMAIN page.typed = 1..Len(recoveryPhrase)
                /\ \A i \in 0..(Len(recoveryPhrase) - 1) :
                      page.typed[i + 1] = recoveryPhrase[i + 1]
          /\ Len(executed) < 4 => page.typed = <<>>
          /\ obStatus = "returned" =>
                /\ executed = OnboardingSteps
                /\ returned = recoveryPhrase
                /\ page.newPassword = password /\ page.repeatPassword = password
          /\ obStatus # "returned" => returned = <<>>)
    /\ [][obStatus = "threw" => executed' = executed /\ page' = page /\ obStatus' = "threw"]_vars

\* C20 witness: the flow returned the two-word phrase it had read and typed
C20_Witness ==
    /\ obStatus = "returned"
    /\ returned = <<"zoo", "abandon">>
    /\ page.typed = <<"zoo", "abandon">>
    /\ executed = OnboardingSteps

(***************************************************************************)
(* Further properties of the validator and of the client                   *)
(***************************************************************************)
\* C28: a validator constructed with tolerance 0, or with a negative
\* tolerance, fails assertMatch for every pair of values, equal values
\* included: on numbers with the assertion error.
C28_NoTolerancePassesNothing ==
    (op = "assertMatch" /\ toleranceArg \in {Num(0), Num(0 - 10)}) =>
        /\ tolerance = toleranceArg
        /\ outcome # "ok"
        /\ (HasToFixed(actual) /\ HasToFixed(expected)) => outcome = "AssertionError"

\* C28 witness: tolerance 0 and equal values: the call throws
C28_Witness ==
    /\ op = "assertMatch"
    /\ tolerance = Num(0)
    /\ actual = Num(5)
    /\ expected = Num(5)
    /\ outcome = "AssertionError"

\* C26: getMultiplePortfolios issues exactly one portfolio GET per element of
\* its input, in order and duplicates included, and nothing else; for an
\* empty input it issues no request and returns the empty sequence.
C26_OneRequestPerAddress ==
    call.operation = "getMultiplePortfolios" =>
        /\ Len(reqs) = Len(call.addresses)
        /\ \A i \in 1..Len(reqs) :
              /\ reqs[i].method = "GET"
              /\ reqs[i].url = baseUrl \o PortfolioPath \o call.addresses[i]
        /\ call.addresses = <<>> =>
              reqs = <<>> /\ status = "returned" /\ result = <<>>

\* C26 witness: the same address twice: two requests, both answered
C26_Witness ==
    /\ call.operation = "getMultiplePortfolios"
    /\ call.addresses = <<"96Y3j66A", "96Y3j66A">>
    /\ Len(reqs) = 2
    /\ reqs[1] = reqs[2]
    /\ status = "returned"

\* C27: in the net-worth scenario the balances POST is issued only when
\* every per-wallet portfolio GET has been answered successfully; while the
\* portfolios are being fetched, and for good once one of the fetches has
\* failed, no balances request exists and no assertMatch check has run, and
\* the test then ends as failed.
C27_BalancesAfterAllPortfolios ==
    /\ [][(test.kind = "netWorth" /\ call'.operation = "getBalances"
              /\ call.operation # "getBalances") =>
            /\ call.operation = "getMultiplePortfolios"
            /\ Len(resp) = Len(ADDRESSES)
            /\ \A i \in 1..Len(resp) : resp[i].state = "fulfilled"]_vars
    /\ []((test.kind = "netWorth" /\ call.operation = "getMultiplePortfolios") =>
            /\ checks = <<>>
            /\ \A i \in 1..Len(reqs) : reqs[i].method = "GET"
            /\ pc = "done" => status = "threw" /\ verdict.result = "failed")

\* C27 witness: one portfolio fetch was rejected while the other was still in
\* flight, and the scenario has ended without calling the balances endpoint
C27_Witness ==
    /\ test.kind = "netWorth"
    /\ pc = "done"
    /\ call.operation = "getMultiplePortfolios"
    /\ resp[1].state = "inflight"
    /\ resp[2].state = "rejected"
    /\ checks = <<>>

\* C25: the refactored validator computes what the inline helpers computed:
\* tokenValue(tokens) is calculateTokenTotal(tokens) for every token array,
\* and sum(data || [], w => w.value || 0) is calculateWalletSum(data) for
\* every data array and for missing data.
C25_SameAsInlineHelpers ==
    /\ op = "tokenValue" => value = CalculateTokenTotal(items)
    /\ (op = "sum" /\ selector = "valueOrZero") =>
          value = CalculateWalletSum([t |-> "arr", items |-> items])
    /\ op = "sumMissing" => value = CalculateWalletSum(Undef) /\ value = Num(0)

\* C25 witness: two tokens, the second without a price: both give 25
C25_Witness ==
    /\ op = "tokenValue"
    /\ Len(items) = 2
    /\ items[1] = [totalUiAmount |-> Num(10), price |-> [t |-> "obj", usdPrice |-> Num(2500)]]
    /\ items[2].totalUiAmount = Num(4)
    /\ items[2].price.t = "undef"
    /\ value = Num(25000)

(***************************************************************************)
(* Properties of the screenshot helper                                     *)
(***************************************************************************)
\* C23: whatever name sanitizeFilename is given, what it returns has at most
\* 100 characters, consists of ASCII letters, digits and underscores only,
\* has no two underscores in a row, and is left as it is by sanitizeFilename.
C23_SanitizedIsCleanAndStable ==
    [][\A c \in captured' \ captured :
          LET s == c.sanitized
          IN  /\ s = SanitizeFilename(c.testName)
              /\ Len(s) <= 100
              /\ \A i \in 1..Len(s) : s[i] \in AlphaNumeric \cup {"_"}
              /\ \A i \in 1..Len(s) : i > 1 => ~(s[i] = "_" /\ s[i - 1] = "_")
              /\ SanitizeFilename(s) = s]_vars

\* C23 witness: a name of 150 characters with runs of blanks was cut to 100,
\* and a name with a letter outside ASCII was sanitized
C23_Witness ==
    /\ \E c \in captured : Len(c.testName) = 150 /\ Len(c.sanitized) = 100
    /\ \E c \in captured : c.testName = <<"a", " ", "é", "b">> /\ c.sanitized = <<"a", "_", "b">>

\* C29: two calls of captureFailure for different test names at the same
\* timestamp have different file paths.
C29_DifferentTestsDifferentPaths ==
    \A a, b \in captured :
        (a.testName # b.testName /\ a.timestamp = b.timestamp) => a.filepath # b.filepath

\* C24: getScreenshots lists only files whose name ends in .png; after
\* clearScreenshots getScreenshotCount() is 0, and clearScreenshots removes
\* only files whose name ends in .png, every other file staying where it is.
C24_ClearRemovesPngOnly ==
    [][/\ \A file \in GetScreenshots(files') : file.last4 = ".png"
       /\ hookPc' = "cleared" =>
             /\ Cardinality(GetScreenshots(files')) = 0
             /\ files' \subseteq files
             /\ \A file \in files : file.last4 # ".png" <=> file \in files']_vars

\* C24 witness: a failure screenshot had been saved; after clearScreenshots
\* notes.txt and shot.PNG are still in the directory and no .png is
C24_Witness ==
    /\ hookPc = "cleared"
    /\ \E i \in 1..Len(logger.calls) : logger.calls[i] = ErrorCall("Test failed")
    /\ \A file \in files : file.last4 # ".png"
    /\ \E a, b \in files : a.last4 = ".txt" /\ b.last4 = ".PNG"

(***************************************************************************)
(* Properties of the wallet management page                                *)
(***************************************************************************)
\* C21 as stated: verifyWalletsInList(wanted) returns true if and only if
\* every expected name is among the titles of the recovery-phrase section, and
\* otherwise throws an error naming the first expected name that is absent;
\* further titles and the order of the titles do not matter, and an empty
\* expected list always succeeds.
C21_TrueIffAllListed ==
    walletCall.operation = "verifyWalletsInList" =>
        LET wanted == walletCall.walletNames
            titles == {walletPage.titles[j] : j \in 1..Len(walletPage.titles)}
            absent == {i \in 1..Len(wanted) : wanted[i] \notin titles}
        IN  /\ walletStatus = "returned" <=> absent = {}
            /\ walletStatus = "returned" => walletResult = "true"
            /\ absent # {} =>
                  /\ walletStatus = "threw"
                  /\ \E i \in absent :
                        /\ \A k \in absent : i <= k
                        /\ walletResult = "Wallet \"" \o wanted[i] \o "\" not found"
            /\ wanted = <<>> => walletStatus = "returned"

\* C21 amended: that holds once the recovery-phrase header is displayed; when
\* it is not displayed within the timeout, verifyWalletsInList throws the
\* error of the wait, whatever the expected names, the empty list included.
C21_TrueIffAllListedOnceDisplayed ==
    walletCall.operation = "verifyWalletsInList" =>
        LET wanted == walletCall.walletNames
            titles == {walletPage.titles[j] : j \in 1..Len(walletPage.titles)}
            absent == {i \in 1..Len(wanted) : wanted[i] \notin titles}
        IN  /\ walletPage.headerDisplayed =>
                  /\ walletStatus = "returned" <=> absent = {}
                  /\ walletStatus = "returned" => walletResult = "true"
                  /\ absent # {} =>
                        /\ walletStatus = "threw"
                        /\ \E i \in absent :
                              /\ \A k \in absent : i <= k
                              /\ walletResult = "Wallet \"" \o wanted[i] \o "\" not found"
                  /\ wanted = <<>> => walletStatus = "returned"
            /\ ~walletPage.headerDisplayed =>
                  walletStatus = "threw" /\ walletResult = WebdriverError

\* C21 witness: two names expected, both absent from a list that shows other
\* wallets: the error names the first of them
C21_Witness ==
    /\ walletCall = [operation |-> "verifyWalletsInList",
                     walletNames |-> <<"Talimi Banana", "Wallet 2">>]
    /\ walletPage.headerDisplayed
    /\ walletPage.titles = <<"Main Wallet">>
    /\ walletStatus = "threw"
    /\ walletResult = "Wallet \"Talimi Banana\" not found"

\* C22: in manageRecoveryPhraseToggles the 3rd and then the 4th switch are
\* clicked, and Save after them, only when the first switch has been verified
\* as disabled and checked and there are at least 4 switches; with no switch, a
\* first switch that is enabled or not checked, or fewer than 4 switches, an
\* error is thrown and Save is never clicked, and with fewer than 4 switches no
\* switch is clicked.
C22_SaveOnlyAfterVerifiedToggles ==
    walletCall.operation = "manageRecoveryPhraseToggles" =>
        LET toggles == walletPage.toggles
            firstOk == /\ Len(toggles) > 0
                       /\ ~toggles[1].enabled
                       /\ toggles[1].dataState = "checked"
            At(element) == {i \in 1..Len(clicked) : clicked[i] = element}
        IN  /\ (At("toggles[2]") # {} \/ At("saveBtn") # {}) =>
                  /\ firstOk /\ Len(toggles) >= 4
                  /\ \E i \in 1..Len(walletSteps) : walletSteps[i] = "verifyFirstToggleState"
            /\ At("toggles[3]") # {} =>
                  \E i \in At("toggles[2]") : \A k \in At("toggles[3]") : i < k
            /\ At("saveBtn") # {} =>
                  clicked = <<"addWalletBtn", "manageOption", "toggles[2]", "toggles[3]",
                              "saveBtn">>
            /\ walletStatus = "returned" => At("saveBtn") # {}
            /\ ~(firstOk /\ Len(toggles) >= 4) =>
                  /\ At("saveBtn") = {}
                  /\ walletStatus \in {"running", "threw"}
                  /\ Len(walletSteps) >= 4 => walletStatus = "threw"
                  /\ (~firstOk /\ Len(walletSteps) >= 3) => walletStatus = "threw"
            /\ Len(toggles) < 4 => At("toggles[2]") = {} /\ At("toggles[3]") = {}

\* C22 witness: four switches, the first disabled and checked: the 3rd, the
\* 4th and Save were clicked and the method returned
C22_Witness ==
    /\ walletCall.operation = "manageRecoveryPhraseToggles"
    /\ Len(walletPage.toggles) = 4
    /\ clicked = <<"addWalletBtn", "manageOption", "toggles[2]", "toggles[3]", "saveBtn">>
    /\ walletStatus = "returned"

====
